---- MODULE Spec2Model ----
(***************************************************************************)
(* dma-accessible: DmaBuffer<T, LEN, Region>, a buffer wrapper whose       *)
(* constructor checks that a static storage lies inside the address range  *)
(* of a region marker (Sram1, Dtcm, Itcm) of the STM32H750.                *)
(*                                                                         *)
(* usize has 32 bits on the target.  A usize value is kept as two 16-bit   *)
(* halves [hi, lo], standing for hi * 2^16 + lo, so that the region        *)
(* bounds keep the values of the source and the sum  addr + LEN  keeps     *)
(* its width.                                                              *)
(***************************************************************************)
EXTENDS Integers, Sequences, FiniteSets, TLC

VARIABLES
    profile,    \* build profile: decides what an overflowing usize `+` does
    statics,    \* the GroundedArrayCell statics: where the linker put them
    mem,        \* the bytes of each static
    buffers,    \* the DmaBuffer values constructed so far, in order
    expect,     \* history: what each buffer was constructed with, and whether
                \* its memory was stored to since
    last,       \* the last call and what it returned
    aborted     \* a panic has aborted the program

vars == <<profile, statics, mem, buffers, expect, last, aborted>>

(***************************************************************************)
(* Bounds of the model.                                                    *)
(***************************************************************************)
MaxLen == 2          \* LEN ranges over 1..MaxLen
MaxBuffers == 2      \* calls of DmaBuffer::new that succeed in one run

(***************************************************************************)
(* usize                                                                   *)
(***************************************************************************)
Half == 65536

W(h, l) == [hi |-> h, lo |-> l]

\* a + n as a mathematical number: hi reaches Half when the sum needs a 33rd bit
WideAdd(a, n) == LET l == a.lo + n IN W(a.hi + (l \div Half), l % Half)

Overflows(w) == w.hi >= Half

\* the sum modulo 2^32
Wrap(w) == W(w.hi % Half, w.lo)

Le(a, b) == a.hi < b.hi \/ (a.hi = b.hi /\ a.lo <= b.lo)

Ge(a, b) == Le(b, a)

Lt(a, b) == ~Le(b, a)

\* a - n for 0 <= n < Half and a >= n
Back(a, n) == IF a.lo >= n THEN W(a.hi, a.lo - n) ELSE W(a.hi - 1, a.lo + Half - n)

(***************************************************************************)
(* Region markers                                                          *)
(***************************************************************************)
Regions == {"Sram1", "Dtcm", "Itcm"}

\* 0x3000_0000, 0x2000_0000, 0x0000_0000
START_ADDR(r) ==
    CASE r = "Sram1" -> W(12288, 0)
      [] r = "Dtcm"  -> W(8192, 0)
      [] r = "Itcm"  -> W(0, 0)

\* END_ADDR with the end of Dtcm written as its start
END_ADDR_typo(r) ==
    CASE r = "Sram1" -> W(12290, 0)
      [] r = "Dtcm"  -> W(8192, 0)
      [] r = "Itcm"  -> W(1, 0)

\* 0x3002_0000, 0x2001_0000, 0x0001_0000
END_ADDR(r) ==
    CASE r = "Sram1" -> W(12290, 0)
      [] r = "Dtcm"  -> W(8193, 0)
      [] r = "Itcm"  -> W(1, 0)

(***************************************************************************)
(* Element types and their representation in memory                        *)
(***************************************************************************)
\* size_of::<T>() for T = u8, u16, u32
ElemSizes == {1, 2, 4}

\* two values of a T of s bytes; the second has a non-zero byte in its first
\* and in its last byte
Values(s) == {0, 256 ^ (s - 1) + 1}

\* a T of s bytes as it lies in memory (the Cortex-M7 is little-endian)
to_bytes(v, s) == [k \in 1..s |-> (v \div (256 ^ (k - 1))) % 256]

RECURSIVE from_bytes(_)
from_bytes(bs) ==
    IF bs = <<>> THEN 0 ELSE Head(bs) + 256 * from_bytes(Tail(bs))

\* a byte of a GroundedArrayCell::uninit() nobody has initialized
Uninit == 0 - 1

(***************************************************************************)
(* The statics and where the linker puts them                              *)
(***************************************************************************)
Statics == {"BUFFER"}

\* AXI SRAM, 0x2400_0000: where .bss and the stack go without a link_section
Elsewhere == W(9216, 0)

\* the last address of the address space, 0xFFFF_FFFF
Top == W(Half - 1, Half - 1)

\* addresses at and around the bounds of the regions, for a static of n
\* elements of s bytes
LinkAddrs(s, n) ==
    UNION {
        { START_ADDR(r),
          Back(END_ADDR(r), n * s),        \* the last byte is the region's last
          Back(END_ADDR(r), n * s - s),    \* the last element is outside
          Back(END_ADDR(r), n),            \* n bytes before the end
          Back(END_ADDR(r), n - 1),
          END_ADDR(r),
          Wrap(WideAdd(START_ADDR(r), s)) }
        \cup (IF r = "Itcm" THEN {} ELSE {Back(START_ADDR(r), s)})
        : r \in Regions }
    \cup {Elsewhere}

\* addresses whose distance to the end of the address space is below n * s
TopAddrs(s, n) == {Back(Top, n - 1), Back(Top, n * s - 1)}

Layout(a, s, n) == [addr |-> a, size |-> s, LEN |-> n]

Aligned(p) == p.addr.lo % p.size = 0

\* the true end of the storage, addr + LEN * size_of::<T>(), not wrapped
TrueEnd(p) == WideAdd(p.addr, p.LEN * p.size)

\* the layout of the memory a buffer refers to
BufLayout(buf) == Layout(buf.ptr, buf.size, buf.LEN)

\* the storage p lies in region r: addr >= start and addr + LEN * size <= end
Contained(p, r) ==
    Ge(p.addr, START_ADDR(r)) /\ Le(TrueEnd(p), END_ADDR(r))

\* the memory ranges of p and q have no byte in common
Disjoint(p, q) == Le(TrueEnd(p), q.addr) \/ Le(TrueEnd(q), p.addr)

\* what a reference to a static can be: aligned, not null, and not reaching
\* beyond the address space
LinkLayouts ==
    { p \in UNION { { Layout(a, s, n) : a \in LinkAddrs(s, n) }
                    : <<s, n>> \in ElemSizes \X (1..MaxLen) } :
      Aligned(p) /\ p.addr # W(0, 0) /\ ~Overflows(TrueEnd(p)) }

\* every aligned base address and count of the machine word
WordLayouts ==
    { p \in UNION { { Layout(a, s, n) : a \in LinkAddrs(s, n) \cup TopAddrs(s, n) }
                    : <<s, n>> \in ElemSizes \X (1..MaxLen) } :
      Aligned(p) }

Profiles == {"debug", "release"}

InitWith(layouts) ==
    /\ profile \in Profiles
    /\ statics \in [Statics -> layouts]
    /\ mem = [st \in Statics |->
                [k \in 1..(statics[st].LEN * statics[st].size) |-> Uninit]]
    /\ buffers = <<>>
    /\ expect = <<>>
    /\ last = [op |-> "none"]
    /\ aborted = FALSE

Init == InitWith(LinkLayouts)

InitWord == InitWith(WordLayouts)

(***************************************************************************)
(* DmaBuffer::new                                                          *)
(***************************************************************************)
\* buffer.initialize_all_copied(initialize_value): every element of the
\* static p is set to v
initialize_all_copied(p, v) ==
    [k \in 1..(p.LEN * p.size) |-> to_bytes(v, p.size)[((k - 1) % p.size) + 1]]

\* the range check with `<` for `<=`: the end of the region is excluded twice
RegionCheckStrict(addr, len, r, prof) ==
    LET sum == WideAdd(addr, len) IN
    IF ~Ge(addr, START_ADDR(r)) THEN "mismatch"
    ELSE IF Overflows(sum) /\ prof = "debug" THEN "overflow"
    ELSE IF Lt(Wrap(sum), END_ADDR(r)) THEN "ok"
    ELSE "mismatch"

\* the range check without its lower bound
RegionCheckNoStart(addr, len, r, prof) ==
    LET sum == WideAdd(addr, len) IN
    IF Overflows(sum) /\ prof = "debug" THEN "overflow"
    ELSE IF Le(Wrap(sum), END_ADDR(r)) THEN "ok"
    ELSE "mismatch"

\* assert!(addr >= Region::START_ADDR && (addr + LEN) <= Region::END_ADDR):
\* `&&` does not evaluate the sum when the first comparison fails; an
\* overflowing sum panics under overflow checks (debug) and wraps without
\* them (release)
RegionCheck(addr, len, r, prof) ==
    LET sum == WideAdd(addr, len) IN
    IF ~Ge(addr, START_ADDR(r)) THEN "mismatch"
    ELSE IF Overflows(sum) /\ prof = "debug" THEN "overflow"
    ELSE IF Le(Wrap(sum), END_ADDR(r)) THEN "ok"
    ELSE "mismatch"

\* Self { ptr: NonNull::from(buffer).cast(), _region: PhantomData } of type
\* DmaBuffer<T, LEN, Region>
NewBuffer(p, r) == [ptr |-> p.addr, size |-> p.size, LEN |-> p.LEN, region |-> r]

\* assert_eq!(buffer.len(), LEN) cannot fail: get_ptr_len returns the LEN of
\* the cell's type, so the only panics are those of the range check
New(st, r, v) ==
    LET p == statics[st]
        res == RegionCheck(p.addr, p.LEN, r, profile)
    IN  /\ ~aborted
        /\ Len(buffers) < MaxBuffers
        /\ mem' = [mem EXCEPT ![st] = initialize_all_copied(p, v)]
        /\ IF res = "ok"
           THEN /\ buffers' = Append(buffers, NewBuffer(p, r))
                /\ expect' = Append(expect, [fill |-> v, written |-> FALSE,
                                             addr |-> p.addr, len |-> p.LEN])
                /\ aborted' = FALSE
           ELSE /\ UNCHANGED <<buffers, expect>>
                /\ aborted' = TRUE
        /\ last' = [op |-> "new", static |-> st, region |-> r, fill |-> v,
                    outcome |-> res]
        /\ UNCHANGED <<profile, statics>>

(***************************************************************************)
(* Accessors.  b is the index of a constructed buffer.                     *)
(***************************************************************************)
\* the static a pointer points to
StaticAt(ptr) == CHOOSE st \in Statics : statics[st].addr = ptr

\* from_raw_parts with elements one byte apart, whatever their size
SliceAtBytes(m, buf) ==
    [i \in 1..buf.LEN |->
        from_bytes(SubSeq(m[StaticAt(buf.ptr)], i, i + buf.size - 1))]

\* core::slice::from_raw_parts(ptr, LEN) read in the memory m: LEN elements
\* of size_of::<T>() bytes each, from ptr on
SliceAt(m, buf) ==
    [i \in 1..buf.LEN |->
        from_bytes(SubSeq(m[StaticAt(buf.ptr)],
                          (i - 1) * buf.size + 1, i * buf.size))]

as_slice(b) == SliceAt(mem, buffers[b])

\* the memory after the store `slice[i] = v` through as_mut_slice()
StoreAt(m, buf, i, v) ==
    [m EXCEPT ![StaticAt(buf.ptr)] =
        [k \in DOMAIN @ |->
            IF (i - 1) * buf.size < k /\ k <= i * buf.size
            THEN to_bytes(v, buf.size)[k - (i - 1) * buf.size]
            ELSE @[k]]]

RECURSIVE StoreAll(_, _, _, _)
\* the memory after `as_mut_slice().copy_from_slice(seq)`, from element i on
StoreAll(m, buf, seq, i) ==
    IF i > Len(seq) THEN m
    ELSE StoreAll(StoreAt(m, buf, i, seq[i]), buf, seq, i + 1)

as_ptr(b) == buffers[b].ptr

\* as_mut_ptr returning the pointer to the second element
as_mut_ptr_next(b) == Wrap(WideAdd(buffers[b].ptr, buffers[b].size))

as_mut_ptr(b) == buffers[b].ptr

LENGTH(b) == buffers[b].LEN

\* history: a store through buffer b is a store into the memory of every
\* buffer over the same memory
Stored(e, b) ==
    [c \in DOMAIN e |->
        IF buffers[c].ptr = buffers[b].ptr
        THEN [e[c] EXCEPT !.written = TRUE]
        ELSE e[c]]

\* as_slice checking the region again, with the length in bytes
AsSliceRechecked(b) ==
    /\ ~aborted
    /\ IF Contained(BufLayout(buffers[b]), buffers[b].region)
       THEN /\ last' = [op |-> "as_slice", buf |-> b, ret |-> as_slice(b),
                        outcome |-> "ok"]
            /\ aborted' = aborted
       ELSE /\ last' = [op |-> "as_slice", buf |-> b, outcome |-> "mismatch"]
            /\ aborted' = TRUE
    /\ UNCHANGED <<profile, statics, mem, buffers, expect>>

\* let s = buf.as_slice();
AsSlice(b) ==
    /\ ~aborted
    /\ last' = [op |-> "as_slice", buf |-> b, ret |-> as_slice(b),
                outcome |-> "ok"]
    /\ UNCHANGED <<profile, statics, mem, buffers, expect, aborted>>

\* buf.as_mut_slice().copy_from_slice(&seq);
AsMutSliceCopy(b, seq) ==
    /\ ~aborted
    /\ mem' = StoreAll(mem, buffers[b], seq, 1)
    /\ expect' = Stored(expect, b)
    /\ last' = [op |-> "copy", buf |-> b, value |-> seq, outcome |-> "ok"]
    /\ UNCHANGED <<profile, statics, buffers, aborted>>

\* let p = buf.as_ptr();
AsPtr(b) ==
    /\ ~aborted
    /\ last' = [op |-> "as_ptr", buf |-> b, ret |-> as_ptr(b), outcome |-> "ok"]
    /\ UNCHANGED <<profile, statics, mem, buffers, expect, aborted>>

\* let p = buf.as_mut_ptr();
AsMutPtr(b) ==
    /\ ~aborted
    /\ last' = [op |-> "as_mut_ptr", buf |-> b, ret |-> as_mut_ptr(b),
                outcome |-> "ok"]
    /\ UNCHANGED <<profile, statics, mem, buffers, expect, aborted>>

\* let n = DmaBuffer::<T, LEN, Region>::LENGTH;
Length(b) ==
    /\ ~aborted
    /\ last' = [op |-> "LENGTH", buf |-> b, ret |-> LENGTH(b), outcome |-> "ok"]
    /\ UNCHANGED <<profile, statics, mem, buffers, expect, aborted>>

Next ==
    \/ \E st \in Statics, r \in Regions :
          \E v \in Values(statics[st].size) : New(st, r, v)
    \/ \E b \in DOMAIN buffers : AsSlice(b)
    \/ \E b \in DOMAIN buffers :
          \E seq \in [1..buffers[b].LEN -> Values(buffers[b].size)] :
              AsMutSliceCopy(b, seq)
    \/ \E b \in DOMAIN buffers : AsPtr(b)
    \/ \E b \in DOMAIN buffers : AsMutPtr(b)
    \/ \E b \in DOMAIN buffers : Length(b)

\* statics as the linker can place them
Spec == Init /\ [][Next]_vars

\* statics at every aligned address of the machine word
SpecWord == InitWord /\ [][Next]_vars

(***************************************************************************)
(* Properties                                                              *)
(***************************************************************************)
\* C1: a storage that begins below the region's start or whose last byte,
\* at addr + LEN * size_of::<T>() - 1, lies at or beyond the region's end makes
\* DmaBuffer::new abort with the region mismatch and produce no buffer; so
\* every buffer that exists lies in its region with all its bytes.
C1_OutsideAborts ==
    /\ (last.op = "new" /\ ~Contained(statics[last.static], last.region))
          => (last.outcome = "mismatch" /\ aborted)
    /\ \A b \in DOMAIN buffers :
          Contained(BufLayout(buffers[b]), buffers[b].region)

C3_OneOwner ==
    \A b \in DOMAIN buffers, c \in DOMAIN buffers :
        b # c => Disjoint(BufLayout(buffers[b]), BufLayout(buffers[c]))

\* the elements a buffer of fill value v holds after construction
Filled(buf, v) == [i \in 1..buf.LEN |-> v]

\* C4: DmaBuffer::new sets every element of the storage to the fill value,
\* once, before the range check; so a buffer whose memory nobody has stored
\* to through a mutable view reads as LEN times its fill value, and a fill
\* never overwrites the elements stored through a buffer that exists.
C4_FilledOnce ==
    /\ [](~aborted =>
            \A b \in DOMAIN buffers :
               ~expect[b].written
                  => as_slice(b) = Filled(buffers[b], expect[b].fill))
    /\ [][(last'.op = "new" /\ ~aborted') =>
            /\ SliceAt(mem', NewBuffer(statics[last'.static], last'.region))
                 = Filled(statics[last'.static], last'.fill)
            /\ \A b \in DOMAIN buffers :
                  expect[b].written => as_slice(b)' = as_slice(b)]_vars

\* C5: the sequence copied into a buffer through as_mut_slice is the sequence
\* as_slice reads, for every length and element type.
C5_RoundTrip ==
    last.op = "copy" => as_slice(last.buf) = last.value

\* a sequence of MaxLen elements of more than one byte each, not all the same,
\* was copied into a buffer
C5_Witness ==
    /\ last.op = "copy"
    /\ buffers[last.buf].size > 1
    /\ buffers[last.buf].LEN = MaxLen
    /\ \E i \in DOMAIN last.value : last.value[i] # last.value[1]

\* C6: the length and the pointers of a buffer are those it was constructed
\* with, whatever was called and stored since: as_ptr and as_mut_ptr return
\* the base address the constructor checked, LENGTH is the length.
C6_IdentityStable ==
    /\ \A b \in DOMAIN buffers :
          /\ as_ptr(b) = expect[b].addr
          /\ as_mut_ptr(b) = as_ptr(b)
          /\ LENGTH(b) = expect[b].len
    /\ last.op \in {"as_ptr", "as_mut_ptr"} => last.ret = expect[last.buf].addr
    /\ last.op = "LENGTH" => last.ret = expect[last.buf].len

\* as_mut_ptr was called on the first of two buffers after a store to it
C6_Witness ==
    /\ last.op = "as_mut_ptr"
    /\ last.buf = 1
    /\ Len(buffers) = MaxBuffers
    /\ expect[1].written

\* C7: every region marker has START_ADDR < END_ADDR: each of Sram1, Dtcm
\* and Itcm, whenever a construction names it.
C7_RegionsWellFormed ==
    \A r \in Regions :
        (last.op = "new" /\ last.region = r) => Lt(START_ADDR(r), END_ADDR(r))

\* a construction under Dtcm gave a buffer above the start of Dtcm and below
\* its end
C7_Witness ==
    /\ last.op = "new"
    /\ last.region = "Dtcm"
    /\ last.outcome = "ok"
    /\ Lt(START_ADDR("Dtcm"), as_ptr(Len(buffers)))
    /\ Lt(as_ptr(Len(buffers)), END_ADDR("Dtcm"))

Accessors == {"as_slice", "copy", "as_ptr", "as_mut_ptr", "LENGTH"}

ReadOnly == {"as_slice", "as_ptr", "as_mut_ptr", "LENGTH"}

\* C8: only the construction can fail: an accessor of a constructed buffer
\* never aborts, and as_slice, as_ptr, as_mut_ptr and LENGTH leave the base
\* address and the length of every buffer (buffers) and the elements (mem) as
\* they were.
C8_AccessorsInfallible ==
    /\ [](/\ last.op \in Accessors => (last.outcome = "ok" /\ ~aborted)
          /\ aborted => last.op = "new")
    /\ [][last'.op \in ReadOnly => (buffers' = buffers /\ mem' = mem)]_vars

\* as_slice was called on a buffer whose last element is outside its region
C8_Witness ==
    /\ last.op = "as_slice"
    /\ expect[last.buf].written
    /\ ~Contained(BufLayout(buffers[last.buf]), buffers[last.buf].region)

Accepting(st) ==
    { r \in Regions :
        RegionCheck(statics[st].addr, statics[st].LEN, r, profile) = "ok" }

====
